---- MODULE Spec2Model ----
(***************************************************************************)
(* Monte Carlo profit simulation: producer/consumer over a shared queue.   *)
(*                                                                         *)
(*   src/montecarloServidor.py   MontecarloServidor (producer thread)      *)
(*   src/montecarloCliente.py    MontecarloCliente (consumer, runner)      *)
(*   src/montecarloScenarys.py   sequential entry point                    *)
(*                                                                         *)
(* Numbers are the program's floats restricted to integer values; every    *)
(* sum and product of the model stays below 2^53, where double arithmetic  *)
(* on integer values is exact.  The mean (a float division) is kept as the *)
(* exact quotient, a reduced fraction.                                     *)
(* The end-of-stream marker None is the empty tuple; a sample is a         *)
(* 3-tuple <<c1, c2, x>>.                                                  *)
(***************************************************************************)
EXTENDS Integers, Sequences, FiniteSets

VARIABLES
    costos,       \* MontecarloCliente.costos (CostFlyweight)
    utilidades,   \* MontecarloCliente.utilidades
    cola,         \* the Queue's items, oldest first
    unfinished,   \* the Queue's unfinished_tasks
    maxsize,      \* the Queue's maxsize (0: unbounded)
    pcC,          \* position of the calling thread (client)
    pcP,          \* position of the thread HiloProductor
    iteraciones,  \* argument of the current (or last) call
    i,            \* iterations of the producer's for loop completed
    muestraP,     \* producer's local `muestra`
    muestraC,     \* consumer's local `muestra`
    summary,      \* dict returned by the last completed call
    runs,         \* calls of ejecutar_simulacion_concurrente completed
    base,         \* history: len(utilidades) when the current call began
    generated,    \* history: samples generar_muestra returned in this call
    puts,         \* history: items the producer put in this call
    scn,          \* outcome of montecarloScenarys.ejecutar_simulacion
    scnN,         \* its argument
    scnResult,    \* the (util_min, util_max, util_media) it unpacked
    taken,        \* history: items cola.get() returned in this call
    acks,         \* history: calls of cola.task_done() in this call
    ev,           \* a lone call of calcular_utilidad: arguments, result
    rng,          \* values the random source returns, in order of request
    gen,          \* lone calls of the generators of both server modules
    fly           \* a FlyweightFactory and its last get_flyweight call

vars == <<costos, utilidades, cola, unfinished, maxsize, pcC, pcP, iteraciones,
          i, muestraP, muestraC, summary, runs, base, generated, puts,
          scn, scnN, scnResult, taken, acks, ev, rng, gen, fly>>

(***************************************************************************)
(* Bounds of the model.                                                    *)
(***************************************************************************)
MaxN == 2
MaxRuns == 2
MaxCap == 2

\* Trial counts a caller may pass, a negative one included.
TrialCounts == (-1)..MaxN

\* Queue() at montecarloCliente.py:109 is unbounded (maxsize 0); the bounded
\* capacities are the ones the channel contract quantifies over.
Capacities == 0..MaxCap

\* Underlying random draws of one sample: <<index chosen by np.random.choice,
\* tenths of the unit interval drawn by np.random.uniform, value drawn by
\* np.random.normal>>.
Draws == { <<2, 4, 14500>>, <<5, 9, 5000>> }

None == << >>

(***************************************************************************)
(* MontecarloServidor: distributions and generators.                       *)
(***************************************************************************)
c1_valores == <<10000, 13000, 16000, 19000, 22000>>
c2_min == 25000
c2_max == 35000
x_min == 9000
x_max == 28500

generar_c1(k) == c1_valores[k]

generar_c2(u) == c2_min + ((c2_max - c2_min) * u) \div 10

\* np.clip(x, lo, hi) = minimum(maximum(x, lo), hi)
clip(x, lo, hi) ==
    LET m == IF x < lo THEN lo ELSE x
    IN  IF m > hi THEN hi ELSE m

generar_x(d) == clip(d, x_min, x_max)

generar_muestra(draw) ==
    << generar_c1(draw[1]), generar_c2(draw[2]), generar_x(draw[3]) >>

(***************************************************************************)
(* Fixed costs and the profit formula.                                     *)
(***************************************************************************)
CostFlyweight(pv, ca, cb) ==
    [precio_venta |-> pv, costo_admin |-> ca, costo_publicidad |-> cb]

PRECIO_VENTA == 70000
COSTO_ADMIN == 160000000
COSTO_PUBLICIDAD == 80000000

calcular_utilidad_NoParen(c1, c2, x) ==
    LET margen == costos.precio_venta - c1 - c2
    IN  margen * x - costos.costo_admin + costos.costo_publicidad

calcular_utilidad(c1, c2, x) ==
    LET margen == costos.precio_venta - c1 - c2
    IN  margen * x - (costos.costo_admin + costos.costo_publicidad)

(***************************************************************************)
(* queue.Queue as the program uses it: put, get, task_done, join.          *)
(***************************************************************************)
QFull_NoUnbounded(q, m) == Len(q) >= m

\* put blocks while maxsize > 0 and qsize() >= maxsize
QFull(q, m) == m > 0 /\ Len(q) >= m

QPut_Lifo(q, x) == <<x>> \o q

\* put appends at the tail; get takes from the head
QPut(q, x) == Append(q, x)

(***************************************************************************)
(* Builtins used on self.utilidades.                                       *)
(***************************************************************************)
RECURSIVE SumFrom(_, _)
SumFrom(acc, s) == IF s = << >> THEN acc ELSE SumFrom(acc + Head(s), Tail(s))

\* sum(xs): left to right, starting from 0
PySum(s) == SumFrom(0, s)

RECURSIVE MinFrom(_, _)
MinFrom(best, s) ==
    IF s = << >> THEN best
    ELSE MinFrom(IF Head(s) < best THEN Head(s) ELSE best, Tail(s))

PyMin_First(s) == Head(s)

\* min(xs): the first smallest element
PyMin(s) == MinFrom(Head(s), Tail(s))

RECURSIVE MaxFrom(_, _)
MaxFrom(best, s) ==
    IF s = << >> THEN best
    ELSE MaxFrom(IF Head(s) > best THEN Head(s) ELSE best, Tail(s))

\* max(xs): the first largest element
PyMax(s) == MaxFrom(Head(s), Tail(s))

Abs(n) == IF n < 0 THEN -n ELSE n

RECURSIVE GCD(_, _)
GCD(a, b) == IF b = 0 THEN a ELSE GCD(b, a % b)

\* The quotient n / d (d > 0) as a reduced fraction.
Frac(n, d) ==
    LET g == GCD(Abs(n), d)
    IN  [num |-> n \div g, den |-> d \div g]

ZeroSummary == [min |-> 0, max |-> 0, mean |-> Frac(0, 1)]

\* montecarloCliente.py:129-136
Stats(us) ==
    IF us = << >> THEN ZeroSummary
    ELSE [min |-> PyMin(us), max |-> PyMax(us),
          mean |-> Frac(PySum(us), Len(us))]

\* Values of the state that belongs to operations no run exercises.
NoEv == [args |-> << >>, ret |-> 0, calls |-> 0]

G0 == [pos |-> 0, out |-> << >>, calls |-> << >>]

NoGen == [S |-> G0, P |-> G0, xS |-> G0, xP |-> G0]

NoFly ==
    [cache |-> << >>, args |-> << >>, ret |-> << >>, first |-> << >>,
     calls |-> 0]

(***************************************************************************)
(* Initial state: a newly constructed client, no call made yet.            *)
(***************************************************************************)
\* A new client and no call yet: everything but the fixed costs.
RunInit ==
    /\ utilidades = << >>
    /\ cola = << >>
    /\ unfinished = 0
    /\ maxsize = 0
    /\ pcC = "idle"
    /\ pcP = "none"
    /\ iteraciones = 0
    /\ i = 0
    /\ muestraP = None
    /\ muestraC = None
    /\ summary = ZeroSummary
    /\ runs = 0
    /\ base = 0
    /\ generated = << >>
    /\ puts = << >>
    /\ scn = "pending"
    /\ scnN = 0
    /\ scnResult = ZeroSummary
    /\ taken = << >>
    /\ acks = 0

Init ==
    /\ RunInit
    /\ costos = CostFlyweight(PRECIO_VENTA, COSTO_ADMIN, COSTO_PUBLICIDAD)
    /\ ev = NoEv
    /\ rng = << >>
    /\ gen = NoGen
    /\ fly = NoFly

scnVars == <<scn, scnN, scnResult>>

\* State of the operations exercised on their own (outside a run).
auxVars == <<ev, rng, gen, fly>>

histC == <<taken, acks>>

(***************************************************************************)
(* ejecutar_simulacion_concurrente, lines 109-119: new queue, new thread,  *)
(* start.                                                                  *)
(***************************************************************************)
Call(n, m) ==
    /\ pcC = "idle"
    /\ runs < MaxRuns
    /\ iteraciones' = n
    /\ maxsize' = m
    /\ cola' = << >>
    /\ unfinished' = 0
    /\ pcP' = "for"
    /\ i' = 0
    /\ muestraP' = None
    /\ muestraC' = None
    /\ pcC' = "get"
    /\ base' = Len(utilidades)
    /\ generated' = << >>
    /\ puts' = << >>
    /\ taken' = << >>
    /\ acks' = 0
    /\ UNCHANGED <<costos, utilidades, summary, runs, scnVars, auxVars>>

(***************************************************************************)
(* hilo_productor                                                          *)
(***************************************************************************)
InRange_OffByOne(k, n) == k <= n

\* for _ in range(iteraciones): another iteration follows k completed ones
InRange(k, n) == k < n

P_generar(draw) ==
    /\ pcP = "for"
    /\ InRange(i, iteraciones)
    /\ muestraP' = generar_muestra(draw)
    /\ generated' = Append(generated, muestraP')
    /\ pcP' = "put"
    /\ UNCHANGED <<costos, utilidades, cola, unfinished, maxsize, pcC,
                   iteraciones, i, muestraC, summary, runs, base, puts,
                   scnVars, auxVars, histC>>

P_put ==
    /\ pcP = "put"
    /\ ~QFull(cola, maxsize)
    /\ cola' = QPut(cola, muestraP)
    /\ unfinished' = unfinished + 1
    /\ puts' = Append(puts, muestraP)
    /\ i' = i + 1
    /\ pcP' = "for"
    /\ UNCHANGED <<costos, utilidades, maxsize, pcC, iteraciones, muestraP,
                   muestraC, summary, runs, base, generated,
                   scnVars, auxVars, histC>>

P_fin_for ==
    /\ pcP = "for"
    /\ ~InRange(i, iteraciones)
    /\ pcP' = "centinela"
    /\ UNCHANGED <<costos, utilidades, cola, unfinished, maxsize, pcC,
                   iteraciones, i, muestraP, muestraC, summary, runs, base,
                   generated, puts, scnVars, auxVars, histC>>

P_centinela ==
    /\ pcP = "centinela"
    /\ ~QFull(cola, maxsize)
    /\ cola' = QPut(cola, None)
    /\ unfinished' = unfinished + 1
    /\ puts' = Append(puts, None)
    /\ pcP' = "exit"
    /\ UNCHANGED <<costos, utilidades, maxsize, pcC, iteraciones, i, muestraP,
                   muestraC, summary, runs, base, generated,
                   scnVars, auxVars, histC>>

\* hilo_productor returns and the thread ends
P_exit ==
    /\ pcP = "exit"
    /\ pcP' = "done"
    /\ UNCHANGED <<costos, utilidades, cola, unfinished, maxsize, pcC,
                   iteraciones, i, muestraP, muestraC, summary, runs, base,
                   generated, puts, scnVars, auxVars, histC>>

Productor ==
    \/ \E draw \in Draws : P_generar(draw)
    \/ P_put
    \/ P_fin_for
    \/ P_centinela
    \/ P_exit

(***************************************************************************)
(* consumir                                                                *)
(***************************************************************************)
C_get ==
    /\ pcC = "get"
    /\ cola # << >>
    /\ muestraC' = Head(cola)
    /\ cola' = Tail(cola)
    /\ pcC' = "check"
    /\ taken' = Append(taken, Head(cola))
    /\ UNCHANGED <<costos, utilidades, unfinished, maxsize, pcP, iteraciones,
                   i, muestraP, summary, runs, base, generated, puts, acks,
                   scnVars, auxVars>>

TaskDone_Skip(u) == u

\* cola.task_done(): one unfinished task fewer
TaskDone(u) == u - 1

\* muestra is None: task_done, break
C_fin ==
    /\ pcC = "check"
    /\ muestraC = None
    /\ unfinished' = TaskDone(unfinished)
    /\ acks' = acks + 1
    /\ pcC' = "join_hilo"
    /\ UNCHANGED <<costos, utilidades, cola, maxsize, pcP, iteraciones, i,
                   muestraP, muestraC, summary, runs, base, generated, puts,
                   taken, scnVars, auxVars>>

Acumular_Twice(us, u) == Append(Append(us, u), u)

Acumular_Replace(us, u) == <<u>>

\* self.utilidades.append(utilidad)
Acumular(us, u) == Append(us, u)

\* a sample: evaluate, append, task_done
C_consumir ==
    /\ pcC = "check"
    /\ muestraC # None
    /\ utilidades' = Acumular(utilidades,
            calcular_utilidad(muestraC[1], muestraC[2], muestraC[3]))
    /\ unfinished' = TaskDone(unfinished)
    /\ acks' = acks + 1
    /\ pcC' = "get"
    /\ UNCHANGED <<costos, cola, maxsize, pcP, iteraciones, i, muestraP,
                   muestraC, summary, runs, base, generated, puts, taken,
                   scnVars, auxVars>>

(***************************************************************************)
(* ejecutar_simulacion_concurrente, lines 124-136: the joins, the summary  *)
(***************************************************************************)
HiloTerminado_NoJoin(p) == TRUE

\* hilo_prod.join() returns once the thread has ended
HiloTerminado(p) == p = "done"

C_join_hilo ==
    /\ pcC = "join_hilo"
    /\ HiloTerminado(pcP)
    /\ pcC' = "join_cola"
    /\ UNCHANGED <<costos, utilidades, cola, unfinished, maxsize, pcP,
                   iteraciones, i, muestraP, muestraC, summary, runs, base,
                   generated, puts, scnVars, auxVars, histC>>

\* cola.join() returns once unfinished_tasks is 0
C_join_cola ==
    /\ pcC = "join_cola"
    /\ unfinished = 0
    /\ pcC' = "stats"
    /\ UNCHANGED <<costos, utilidades, cola, unfinished, maxsize, pcP,
                   iteraciones, i, muestraP, muestraC, summary, runs, base,
                   generated, puts, scnVars, auxVars, histC>>

C_return ==
    /\ pcC = "stats"
    /\ summary' = Stats(utilidades)
    /\ runs' = runs + 1
    /\ pcC' = "idle"
    /\ UNCHANGED <<costos, utilidades, cola, unfinished, maxsize, pcP,
                   iteraciones, i, muestraP, muestraC, base, generated, puts,
                   scnVars, auxVars, histC>>

Consumidor ==
    \/ C_get
    \/ C_fin
    \/ C_consumir
    \/ C_join_hilo
    \/ C_join_cola
    \/ C_return

(***************************************************************************)
(* montecarloScenarys.ejecutar_simulacion: builds its own client and calls *)
(* cliente.ejecutar_simulacion(iteraciones) on it (line 61).               *)
(***************************************************************************)
\* The attributes class MontecarloCliente defines.
ClienteMetodos ==
    {"__init__", "calcular_utilidad", "consumir",
     "ejecutar_simulacion_concurrente"}

\* Attribute lookup of a method call on a MontecarloCliente instance.
LlamarMetodo(nombre) ==
    IF nombre \in ClienteMetodos THEN "ok" ELSE "AttributeError"

ScenarysEjecutar(n) ==
    /\ scn = "pending"
    /\ pcC = "idle"
    /\ scnN' = n
    /\ scn' = LlamarMetodo("ejecutar_simulacion")
    /\ UNCHANGED <<costos, utilidades, cola, unfinished, maxsize, pcC, pcP,
                   iteraciones, i, muestraP, muestraC, summary, runs, base,
                   generated, puts, scnResult, auxVars, histC>>

(***************************************************************************)
(* montecarloCliente.main: factory.get_flyweight(pv=..., ca=..., cb=...),  *)
(* then the server, the client, the concurrent run of 10000 trials and the *)
(* three printed lines.                                                    *)
(***************************************************************************)
\* Parameters of FlyweightFactory.get_flyweight (besides self).
FlyweightParams == {"precio_venta", "costo_admin", "costo_publicidad"}

\* A call that passes its arguments by keyword: each keyword must name a
\* parameter.
LlamarConKeywords(kw, params) ==
    IF kw \subseteq params THEN "ok" ELSE "TypeError"

MainIteraciones == 10000

\* main starts the program: nothing has run yet.  An exception ends the
\* calling thread.
ClienteMain ==
    /\ pcC = "idle" /\ runs = 0 /\ pcP = "none"
    /\ LET r == LlamarConKeywords({"pv", "ca", "cb"}, FlyweightParams)
       IN  IF r = "ok"
           THEN Call(MainIteraciones, 0)
           ELSE /\ pcC' = r
                /\ UNCHANGED <<costos, utilidades, cola, unfinished, maxsize,
                               pcP, iteraciones, i, muestraP, muestraC,
                               summary, runs, base, generated, puts,
                               scnVars, auxVars, histC>>

Next ==
    \/ \E n \in TrialCounts, m \in Capacities : Call(n, m)
    \/ Productor
    \/ Consumidor
    \/ \E n \in TrialCounts : ScenarysEjecutar(n)
    \/ ClienteMain

Spec == Init /\ [][Next]_vars

runVars == <<utilidades, cola, unfinished, maxsize, pcC, pcP, iteraciones,
             i, muestraP, muestraC, summary, runs, base, generated, puts,
             scnVars, histC>>

(***************************************************************************)
(* calcular_utilidad on its own: a client holding some fixed costs, called *)
(* with some sample, more than once.                                       *)
(***************************************************************************)
MaxEvalCalls == 2

CostChoices ==
    { CostFlyweight(PRECIO_VENTA, COSTO_ADMIN, COSTO_PUBLICIDAD),
      CostFlyweight(50000, 1000000, 2000000) }

EvalArgs ==
    { <<c1, c2, x>> : c1 \in {c1_valores[k] : k \in 1..Len(c1_valores)},
                      c2 \in {c2_min, 30000, c2_max},
                      x \in {x_min, 14500, x_max} }

EvalInit ==
    /\ RunInit
    /\ costos \in CostChoices
    /\ \E a \in EvalArgs : ev = [args |-> a, ret |-> 0, calls |-> 0]
    /\ rng = << >>
    /\ gen = NoGen
    /\ fly = NoFly

Evaluar ==
    /\ ev.calls < MaxEvalCalls
    /\ ev' = [ev EXCEPT
                !.ret = calcular_utilidad(ev.args[1], ev.args[2], ev.args[3]),
                !.calls = @ + 1]
    /\ UNCHANGED <<costos, runVars, rng, gen, fly>>

EvalNext == Evaluar

EvalSpec == EvalInit /\ [][EvalNext]_vars

\* The concurrent runner alone (the sequential entry point is another
\* program), with both threads scheduled while they can take a step.
NextRun ==
    \/ \E n \in TrialCounts, m \in Capacities : Call(n, m)
    \/ Productor
    \/ Consumidor

FairSpec ==
    Init /\ [][NextRun]_vars /\ WF_vars(Productor) /\ WF_vars(Consumidor)

(***************************************************************************)
(* Vocabulary of the properties.                                           *)
(***************************************************************************)
Range(s) == { s[k] : k \in 1..Len(s) }

Count(v, s) == Cardinality({ k \in 1..Len(s) : s[k] = v })

\* The profit values appended since the current call began.
RunSlice == SubSeq(utilidades, base + 1, Len(utilidades))

\* The profit of every sample generated in this call, in generation order.
Evals ==
    [k \in 1..Len(generated) |->
        calcular_utilidad(generated[k][1], generated[k][2], generated[k][3])]

\* consumir has returned in the current call.
ConsumerFinished ==
    \/ pcC \in {"join_hilo", "join_cola", "stats"}
    \/ pcC = "idle" /\ runs >= 1

Returned == pcC = "idle" /\ runs >= 1

InRun == pcC # "idle"

(***************************************************************************)
(* C1: when a concurrent run with N >= 0 completes, the accumulated        *)
(* collection has gained exactly N profit values, one per generated        *)
(* sample: as multisets the values gained are the evaluations of the       *)
(* samples generated (nothing dropped, nothing evaluated twice); on a new  *)
(* client the collection holds exactly N values.                           *)
(***************************************************************************)
C1_NoLossNoDup ==
    (ConsumerFinished /\ iteraciones >= 0) =>
        /\ Len(generated) = iteraciones
        /\ Len(RunSlice) = iteraciones
        /\ \A v \in Range(RunSlice) \cup Range(Evals) :
                Count(v, RunSlice) = Count(v, Evals)
        /\ (base = 0 => Len(utilidades) = iteraciones)

C1_Witness ==
    /\ Returned /\ runs = 1 /\ base = 0
    /\ iteraciones = 2 /\ maxsize = 1
    /\ Len(utilidades) = 2
    /\ utilidades[1] # utilidades[2]

(***************************************************************************)
(* C2: hilo_productor(cola, N) with N >= 0 puts exactly N samples and then *)
(* exactly one None: None is put at most once, only as item N+1, nothing   *)
(* is put after it, and once the producer has passed its last put the      *)
(* items put are the N generated samples followed by None.                 *)
(***************************************************************************)
C2_MarkerOnceAtEnd ==
    (pcP # "none" /\ iteraciones >= 0) =>
        /\ Count(None, puts) <= 1
        /\ \A k \in 1..Len(puts) :
                puts[k] = None => (k = Len(puts) /\ k = iteraciones + 1)
        /\ Len(puts) <= iteraciones + 1
        /\ (pcP \in {"exit", "done"} => puts = generated \o <<None>>)
        /\ (pcP \in {"exit", "done"} => Len(puts) = iteraciones + 1)

C2_Witness ==
    /\ pcP = "done" /\ iteraciones = 2 /\ Len(puts) = 3
    /\ puts[3] = None /\ puts[1] # None /\ puts[2] # None

C2_WitnessZero ==
    pcP = "done" /\ iteraciones = 0 /\ puts = <<None>>

(***************************************************************************)
(* C3: in every state of a concurrent run the j-th profit value appended   *)
(* in this call is the evaluation of the j-th sample generated, and the    *)
(* sample the consumer holds is the next one in generation order.          *)
(***************************************************************************)
C3_Fifo ==
    (pcP # "none") =>
        /\ Len(RunSlice) <= Len(generated)
        /\ \A j \in 1..Len(RunSlice) : RunSlice[j] = Evals[j]
        /\ (pcC = "check" /\ muestraC # None =>
                /\ Len(RunSlice) < Len(generated)
                /\ muestraC = generated[Len(RunSlice) + 1])

C3_Witness ==
    /\ InRun /\ maxsize = 2
    /\ Len(RunSlice) = 2
    /\ generated[1] # generated[2]
    /\ RunSlice[1] = Evals[1] /\ RunSlice[2] = Evals[2]

(***************************************************************************)
(* C4: no state of a run has both threads unable to step, and under fair   *)
(* scheduling of both threads every run that was started reaches the state *)
(* where the producer thread has ended, the consumer has taken the marker  *)
(* and the summary has been returned.                                      *)
(***************************************************************************)
ProducerCannotStep ==
    \/ pcP \in {"put", "centinela"} /\ QFull(cola, maxsize)
    \/ pcP \in {"none", "done"}

ConsumerCannotStep ==
    \/ pcC = "get" /\ cola = << >>
    \/ pcC = "join_hilo" /\ ~HiloTerminado(pcP)
    \/ pcC = "join_cola" /\ unfinished # 0

BothBlocked == InRun /\ ProducerCannotStep /\ ConsumerCannotStep

RunComplete ==
    /\ pcC = "idle" /\ pcP = "done"
    /\ muestraC = None /\ cola = << >>
    /\ summary = Stats(utilidades)

C4_NoDeadlockTerminates ==
    /\ [] ~BothBlocked
    /\ (InRun ~> RunComplete)

C4_Witness ==
    /\ RunComplete /\ runs = 1
    /\ maxsize = 1 /\ iteraciones = 2
    /\ Len(puts) = 3

(***************************************************************************)
(* C5: whenever the summary is about to be computed, the consumer has      *)
(* taken the marker, the producer thread has ended, and the queue is empty *)
(* with no unacknowledged item.                                            *)
(***************************************************************************)
C5_SummaryAfterJoin ==
    (pcC = "stats") =>
        /\ pcP = "done"
        /\ muestraC = None
        /\ Count(None, puts) = 1
        /\ cola = << >>
        /\ unfinished = 0

C5_Witness ==
    /\ pcC = "stats" /\ pcP = "done" /\ unfinished = 0
    /\ iteraciones = 2 /\ maxsize = 2 /\ Len(RunSlice) = 2

(***************************************************************************)
(* C6: the summary a call returns is computed over exactly the profit      *)
(* values produced during that call (the zero summary when there are       *)
(* none), not over values accumulated by earlier calls.                    *)
(***************************************************************************)
C6_SummaryOfThisRun ==
    (Returned /\ iteraciones >= 0) => summary = Stats(RunSlice)

(***************************************************************************)
(* C7: a call with a negative trial count fails fast: the producer puts no *)
(* marker and the runner does not return a summary.                        *)
(***************************************************************************)
C7_NegativeFailsFast ==
    (iteraciones < 0) => (Count(None, puts) = 0 /\ ~Returned)

(***************************************************************************)
(* C8: with N = 0 both the sequential run and the concurrent run return    *)
(* the summary {0.0, 0.0, 0.0}.                                            *)
(***************************************************************************)
C8_ZeroRunZeroSummary ==
    /\ (scn # "pending" /\ scnN = 0) =>
            (scn = "ok" /\ scnResult = ZeroSummary)
    /\ (Returned /\ iteraciones = 0) => summary = ZeroSummary

(***************************************************************************)
(* C9: the sequential runner and the concurrent runner, called with the    *)
(* same N on new clients, return identical min, max and mean.              *)
(***************************************************************************)
C9_SeqEqualsConc ==
    (scn # "pending" /\ Returned /\ runs = 1
        /\ iteraciones >= 0 /\ scnN = iteraciones) =>
        (scn = "ok" /\ scnResult = summary)

(***************************************************************************)
(* C10: a summary returned over a non-empty collection has min the         *)
(* smallest value, max the largest value and mean the sum of the values    *)
(* divided by their count, and exchanging any two neighbouring values of   *)
(* the collection (hence any reordering) leaves all three unchanged.       *)
(***************************************************************************)
\* The sum of a collection taken value by value, whatever the order.
BagSum(s) ==
    LET vs == Range(s)
        RECURSIVE Add(_)
        Add(S) == IF S = {} THEN 0
                  ELSE LET v == CHOOSE w \in S : TRUE
                       IN  v * Count(v, s) + Add(S \ {v})
    IN  Add(vs)

Swap(s, k) ==
    [j \in 1..Len(s) |->
        IF j = k THEN s[k + 1] ELSE IF j = k + 1 THEN s[k] ELSE s[j]]

C10_SummaryIsMinMaxMean ==
    (Returned /\ utilidades # << >>) =>
        /\ summary.min \in Range(utilidades)
        /\ \A v \in Range(utilidades) : summary.min <= v
        /\ summary.max \in Range(utilidades)
        /\ \A v \in Range(utilidades) : v <= summary.max
        /\ summary.mean.den > 0
        /\ \E g \in 1..Len(utilidades) :
                /\ summary.mean.den * g = Len(utilidades)
                /\ summary.mean.num * g = BagSum(utilidades)
        /\ \A k \in 1..(Len(utilidades) - 1) :
                Stats(Swap(utilidades, k)) = summary

C10_Witness ==
    /\ Returned /\ Len(utilidades) >= 3
    /\ utilidades[1] > utilidades[2]
    /\ summary.min < summary.max
    /\ summary.mean.den > 1

(***************************************************************************)
(* The generators on their own, in both server modules.  A generator call  *)
(* asks the random source for its next value: g.pos counts the values      *)
(* taken, g.out collects what the calls returned, g.calls names them.      *)
(***************************************************************************)
Llamar_c1(g, s) ==
    [pos |-> g.pos + 1, out |-> Append(g.out, generar_c1(s[g.pos + 1])),
     calls |-> Append(g.calls, "c1")]

Llamar_c2(g, s) ==
    [pos |-> g.pos + 1, out |-> Append(g.out, generar_c2(s[g.pos + 1])),
     calls |-> Append(g.calls, "c2")]

\* Rejection sampling: a draw outside the range is thrown away, one more
\* is taken.
Llamar_x_Resample(g, s) ==
    LET d == s[g.pos + 1]
        n == IF d < x_min \/ d > x_max THEN 2 ELSE 1
    IN  [pos |-> g.pos + n, out |-> Append(g.out, generar_x(s[g.pos + n])),
         calls |-> Append(g.calls, "x")]

Llamar_x(g, s) ==
    [pos |-> g.pos + 1, out |-> Append(g.out, generar_x(s[g.pos + 1])),
     calls |-> Append(g.calls, "x")]

\* montecarloServidor.generar_muestra: the tuple's elements are evaluated
\* left to right.
Serv_generar_muestra(s) == Llamar_x(Llamar_c2(Llamar_c1(G0, s), s), s)

\* montecarloProductor.MontecarloServidor
Prod_c1_valores == <<10000, 13000, 16000, 19000, 22000>>
Prod_c2_min == 25000
Prod_c2_max == 35000
Prod_x_min == 9000
Prod_x_max == 28500

Prod_generar_c1(k) == Prod_c1_valores[k]

Prod_generar_c2(u) == Prod_c2_min + ((Prod_c2_max - Prod_c2_min) * u) \div 10

Prod_generar_x(d) == clip(d, Prod_x_min, Prod_x_max)

Prod_Llamar_c1(g, s) ==
    [pos |-> g.pos + 1, out |-> Append(g.out, Prod_generar_c1(s[g.pos + 1])),
     calls |-> Append(g.calls, "c1")]

Prod_Llamar_c2(g, s) ==
    [pos |-> g.pos + 1, out |-> Append(g.out, Prod_generar_c2(s[g.pos + 1])),
     calls |-> Append(g.calls, "c2")]

Prod_Llamar_x(g, s) ==
    [pos |-> g.pos + 1, out |-> Append(g.out, Prod_generar_x(s[g.pos + 1])),
     calls |-> Append(g.calls, "x")]

Prod_generar_muestra_XFirst(s) ==
    LET a == Prod_Llamar_c1(G0, s)
        b == Prod_Llamar_x(a, s)
        c == Prod_Llamar_c2(b, s)
    IN  c

\* c1 = ..., c2 = ..., x = ...; return (c1, c2, x)
Prod_generar_muestra(s) ==
    LET a == Prod_Llamar_c1(G0, s)
        b == Prod_Llamar_c2(a, s)
        c == Prod_Llamar_x(b, s)
    IN  c

\* Values np.random.normal may return: below, at, inside, above the range.
NormalDraws == {-1000, 8999, 9000, 14500, 28500, 28501, 40000}

\* What the random source returns to four requests in a row: an index
\* chosen by np.random.choice, tenths of the unit interval of
\* np.random.uniform, two values of np.random.normal.
GenStreams ==
    { <<k, u, d, d2>> : k \in 1..Len(c1_valores), u \in {0, 5, 9},
                        d \in NormalDraws, d2 \in {14500, 40000} }

\* The random source as it stands before a lone generar_x call: the demand
\* draw is the third value.
GX0 == [pos |-> 2, out |-> << >>, calls |-> << >>]

GenInit ==
    /\ RunInit
    /\ costos = CostFlyweight(PRECIO_VENTA, COSTO_ADMIN, COSTO_PUBLICIDAD)
    /\ ev = NoEv
    /\ rng \in GenStreams
    /\ gen = [S |-> G0, P |-> G0, xS |-> GX0, xP |-> GX0]
    /\ fly = NoFly

Gen_Serv_muestra ==
    /\ gen.S = G0
    /\ gen' = [gen EXCEPT !.S = Serv_generar_muestra(rng)]
    /\ UNCHANGED <<costos, runVars, ev, rng, fly>>

Gen_Prod_muestra ==
    /\ gen.P = G0
    /\ gen' = [gen EXCEPT !.P = Prod_generar_muestra(rng)]
    /\ UNCHANGED <<costos, runVars, ev, rng, fly>>

Gen_Serv_x ==
    /\ gen.xS = GX0
    /\ gen' = [gen EXCEPT !.xS = Llamar_x(GX0, rng)]
    /\ UNCHANGED <<costos, runVars, ev, rng, fly>>

Gen_Prod_x ==
    /\ gen.xP = GX0
    /\ gen' = [gen EXCEPT !.xP = Prod_Llamar_x(GX0, rng)]
    /\ UNCHANGED <<costos, runVars, ev, rng, fly>>

GenNext ==
    \/ Gen_Serv_muestra
    \/ Gen_Prod_muestra
    \/ Gen_Serv_x
    \/ Gen_Prod_x

GenSpec == GenInit /\ [][GenNext]_vars

(***************************************************************************)
(* C12: generar_x clamps: with d the value np.random.normal returned, the  *)
(* demand returned is 9000 when d < 9000, 28500 when d > 28500 and d       *)
(* otherwise; the call takes exactly one value from the random source; the *)
(* result lies in [9000, 28500]; in both server modules.                   *)
(***************************************************************************)
Clamped(d) == IF d < 9000 THEN 9000 ELSE IF d > 28500 THEN 28500 ELSE d

XCallOk(g) ==
    (g # GX0) =>
        /\ g.calls = <<"x">>
        /\ g.pos = GX0.pos + 1
        /\ g.out = <<Clamped(rng[3])>>
        /\ g.out[1] >= 9000 /\ g.out[1] <= 28500

C12_Clamp == XCallOk(gen.xS) /\ XCallOk(gen.xP)

C12_Witness ==
    /\ gen.xS # GX0 /\ gen.xP # GX0
    /\ rng[3] = 40000
    /\ gen.xS.out = <<28500>> /\ gen.xP.out = <<28500>>

C12_WitnessLow ==
    /\ gen.xS # GX0 /\ gen.xP # GX0
    /\ rng[3] = -1000
    /\ gen.xS.out = <<9000>> /\ gen.xP.out = <<9000>>

(***************************************************************************)
(* C17: generar_muestra returns one triple (labor, component, demand) from *)
(* exactly one call to each generator, made in the order labor, component, *)
(* demand, each taking the next value of the random source; labor is in    *)
(* {10000, 13000, 16000, 19000, 22000}, component in [25000, 35000],       *)
(* demand in [9000, 28500]; both server modules return the same triple for *)
(* the same values of the random source.                                   *)
(***************************************************************************)
MuestraOk(g) ==
    (g # G0) =>
        /\ g.calls = <<"c1", "c2", "x">>
        /\ g.pos = 3
        /\ Len(g.out) = 3
        /\ g.out[1] \in {10000, 13000, 16000, 19000, 22000}
        /\ g.out[2] >= 25000 /\ g.out[2] <= 35000
        /\ g.out[3] >= 9000 /\ g.out[3] <= 28500
        /\ g.out[2] = 25000 + 1000 * rng[2]
        /\ g.out[3] = Clamped(rng[3])

C17_Muestra ==
    /\ MuestraOk(gen.S)
    /\ MuestraOk(gen.P)
    /\ (gen.S # G0 /\ gen.P # G0 => gen.S.out = gen.P.out)
    /\ (gen.S # G0 => gen.S.out = generar_muestra(rng))

C17_Witness ==
    /\ gen.S # G0 /\ gen.P # G0
    /\ rng = <<2, 5, 8999, 14500>>
    /\ gen.S.out = <<13000, 30000, 9000>>
    /\ gen.P.out = <<13000, 30000, 9000>>

(***************************************************************************)
(* FlyweightFactory on its own.  fly.cache is self._flyweights, a mapping  *)
(* from (precio_venta, costo_admin, costo_publicidad) to CostFlyweight;    *)
(* fly.first keeps, as history, what the first call with each key          *)
(* returned.                                                               *)
(***************************************************************************)
MaxFlyCalls == 3

FlyKeys ==
    { <<pv, ca, cb>> : pv \in {PRECIO_VENTA, 60000},
                       ca \in {COSTO_ADMIN, 1000},
                       cb \in {COSTO_PUBLICIDAD, 2000} }

\* A factory that keeps only the entry it made last.
FlyStore_KeepLast(cache, clave) ==
    [k \in {clave} |-> CostFlyweight(clave[1], clave[2], clave[3])]

\* if clave not in self._flyweights: self._flyweights[clave] = CostFlyweight(...)
FlyStore(cache, clave) ==
    IF clave \notin DOMAIN cache
    THEN [k \in DOMAIN cache \cup {clave} |->
            IF k = clave
            THEN CostFlyweight(clave[1], clave[2], clave[3])
            ELSE cache[k]]
    ELSE cache

get_flyweight(clave) ==
    /\ fly.calls < MaxFlyCalls
    /\ LET c2 == FlyStore(fly.cache, clave)
           r == c2[clave]
       IN  fly' = [cache |-> c2, args |-> clave, ret |-> r,
                   first |-> IF clave \in DOMAIN fly.first THEN fly.first
                             ELSE [k \in DOMAIN fly.first \cup {clave} |->
                                    IF k = clave THEN r ELSE fly.first[k]],
                   calls |-> fly.calls + 1]
    /\ UNCHANGED <<costos, runVars, ev, rng, gen>>

\* FlyweightFactory(): an empty mapping.
FlyInit ==
    /\ RunInit
    /\ costos = CostFlyweight(PRECIO_VENTA, COSTO_ADMIN, COSTO_PUBLICIDAD)
    /\ ev = NoEv
    /\ rng = << >>
    /\ gen = NoGen
    /\ fly = NoFly

FlyNext == \E clave \in FlyKeys : get_flyweight(clave)

FlySpec == FlyInit /\ [][FlyNext]_vars

(***************************************************************************)
(* C13: get_flyweight(pv, ca, cb) returns fixed costs whose fields are its *)
(* arguments; a call with arguments used before returns a value equal to   *)
(* the one the first such call returned; a call adds at most one entry to  *)
(* the cache and neither changes nor removes a stored entry.               *)
(***************************************************************************)
FlyReturned ==
    (fly.calls >= 1) =>
        /\ fly.ret = [precio_venta |-> fly.args[1],
                      costo_admin |-> fly.args[2],
                      costo_publicidad |-> fly.args[3]]
        /\ fly.args \in DOMAIN fly.first
        /\ fly.ret = fly.first[fly.args]
        /\ fly.args \in DOMAIN fly.cache
        /\ Cardinality(DOMAIN fly.cache) <= fly.calls

FlyKept ==
    /\ \A k \in DOMAIN fly.cache :
            k \in DOMAIN fly'.cache /\ fly'.cache[k] = fly.cache[k]
    /\ Cardinality(DOMAIN fly'.cache) <= Cardinality(DOMAIN fly.cache) + 1

C13_CacheIdempotent ==
    /\ []FlyReturned
    /\ [][FlyKept]_vars

\* Three calls, two of them with the same arguments.
C13_Witness ==
    /\ fly.calls = 3
    /\ Cardinality(DOMAIN fly.cache) = 2
    /\ fly.ret = CostFlyweight(70000, 160000000, 80000000)
    /\ fly.ret = fly.first[fly.args]

(***************************************************************************)
(* C14: each entry point runs to completion: montecarloCliente.main and    *)
(* montecarloScenarys.ejecutar_simulacion raise no error on their way to   *)
(* the lines that print the minimum, maximum and average profit.           *)
(***************************************************************************)
C14_EntryPointsComplete ==
    /\ pcC # "TypeError"
    /\ scn # "AttributeError"

(***************************************************************************)
(* C15: in a call with N >= 0, consumir gets at most N+1 items and exactly *)
(* N+1 once it has returned; only the last item it got can be the marker   *)
(* (no get follows the marker); every item got is acknowledged by exactly  *)
(* one task_done once processed; acknowledgements never exceed the puts;   *)
(* and unfinished_tasks is 0 when consumir has returned.                   *)
(***************************************************************************)
C15_ConsumerProtocol ==
    (pcP # "none" /\ iteraciones >= 0) =>
        /\ Len(taken) <= iteraciones + 1
        /\ (ConsumerFinished =>
                Len(taken) = iteraciones + 1 /\ taken[Len(taken)] = None)
        /\ \A k \in 1..Len(taken) : taken[k] = None => k = Len(taken)
        /\ (pcC = "get" /\ taken # << >> => taken[Len(taken)] # None)
        /\ acks = Len(taken) - (IF pcC = "check" THEN 1 ELSE 0)
        /\ acks <= Len(puts)
        /\ unfinished = Len(puts) - acks
        /\ unfinished >= 0
        /\ (ConsumerFinished => unfinished = 0 /\ Count(None, puts) = 1)

C15_Witness ==
    /\ pcC = "join_hilo" /\ iteraciones = 2
    /\ Len(taken) = 3 /\ acks = 3 /\ unfinished = 0
    /\ taken[3] = None /\ taken[1] # None /\ taken[2] # None

(***************************************************************************)
(* C16: every producer step leaves the accumulated collection and the      *)
(* fixed costs as they are; every step of consumir changes, of the state   *)
(* the two threads share, only the queue, and changes the accumulated      *)
(* collection only by appending to it; the fixed costs never change.       *)
(***************************************************************************)
IsPrefix(s, t) == Len(s) <= Len(t) /\ SubSeq(t, 1, Len(s)) = s

ConsumirStep == C_get \/ C_fin \/ C_consumir

C16_Frame ==
    /\ [][costos' = costos]_vars
    /\ [][Productor => UNCHANGED <<utilidades, costos>>]_vars
    /\ [][ConsumirStep =>
            /\ UNCHANGED <<costos, pcP, i, muestraP, iteraciones, maxsize,
                           summary, runs, generated, puts>>
            /\ IsPrefix(utilidades, utilidades')
            /\ Len(utilidades') <= Len(utilidades) + 1]_vars

C16_Witness ==
    /\ pcP = "put" /\ Len(puts) = 1 /\ Len(RunSlice) = 1 /\ base = 1
    /\ costos = CostFlyweight(PRECIO_VENTA, COSTO_ADMIN, COSTO_PUBLICIDAD)

(***************************************************************************)
(* C11: calcular_utilidad(c1, c2, x) returns                               *)
(* (sale_price - c1 - c2) * x - (admin_cost + advertising_cost); fixed     *)
(* costs (70000, 160000000, 80000000) and sample (13000, 30000, 14500)     *)
(* give 151500000; a second call with the same arguments returns the same  *)
(* value; the call leaves the fixed costs, the accumulated collection and  *)
(* the queue unchanged.                                                    *)
(***************************************************************************)
EvFormula ==
    (ev.calls >= 1) =>
        ev.ret = (costos.precio_venta - ev.args[1] - ev.args[2]) * ev.args[3]
                 - (costos.costo_admin + costos.costo_publicidad)

EvExample ==
    /\ ev.calls >= 1
    /\ costos = CostFlyweight(70000, 160000000, 80000000)
    /\ ev.args = <<13000, 30000, 14500>>

EvFrame ==
    Evaluar =>
        /\ UNCHANGED <<costos, utilidades, cola, unfinished>>
        /\ (ev.calls >= 1 => ev'.ret = ev.ret)

C11_ProfitFormula ==
    /\ [](EvFormula /\ (EvExample => ev.ret = 151500000))
    /\ [][EvFrame]_vars

C11_Witness == EvExample /\ ev.calls = 2 /\ ev.ret = 151500000

\* C11 as stated, with the example result 161500000.
C11_ProfitFormulaAsStated ==
    EvFormula /\ (EvExample => ev.ret = 161500000)

====
